---- MODULE Spec2Model ----
(***************************************************************************)
(* Model of the context-aware assistant of pill-reminder:                  *)
(*   - GlobalAIAssistant (conversation controller, React component),       *)
(*   - getGlobalAssistantResponse (server action),                         *)
(*   - askGlobalAssistant (gateway + response validator).                  *)
(*                                                                         *)
(* A JavaScript string is a sequence of one-character strings, so that     *)
(* trim(), JSON.parse and the truthiness of a string are computed and not  *)
(* assumed.                                                                *)
(***************************************************************************)
EXTENDS Integers, Sequences, FiniteSets, TLC

(***************************************************************************)
(* Bounds of the model.                                                    *)
(***************************************************************************)
\* accepted submits per behaviour (each one is a user turn and a request)
MaxSubmits == 2

\* the longest 30-day window of the adherence runs, in log entries
MaxLogs == 40

(***************************************************************************)
(* String constants of the source.                                         *)
(***************************************************************************)
ChipDashboard1 ==
  <<"W", "h", "a", "t", " ", "m", "e", "d", "i", "c", "a", "t", "i", "o",
    "n", "s", " ", "d", "o", " ", "I", " ", "h", "a", "v", "e", " ", "t",
    "o", "d", "a", "y", "?">>

ChipDashboard2 ==
  <<"H", "o", "w", " ", "a", "m", " ", "I", " ", "d", "o", "i", "n", "g",
    " ", "w", "i", "t", "h", " ", "m", "y", " ", "a", "d", "h", "e", "r",
    "e", "n", "c", "e", "?">>

ChipMedications1 ==
  <<"W", "h", "a", "t", " ", "a", "r", "e", " ", "c", "o", "m", "m", "o",
    "n", " ", "m", "e", "d", "i", "c", "a", "t", "i", "o", "n", " ", "i",
    "n", "t", "e", "r", "a", "c", "t", "i", "o", "n", "s", "?">>

ChipMedications2 ==
  <<"T", "i", "p", "s", " ", "f", "o", "r", " ", "r", "e", "m", "e", "m",
    "b", "e", "r", "i", "n", "g", " ", "t", "o", " ", "t", "a", "k", "e",
    " ", "m", "y", " ", "p", "i", "l", "l", "s">>

ChipReports1 ==
  <<"H", "o", "w", " ", "c", "a", "n", " ", "I", " ", "i", "m", "p", "r",
    "o", "v", "e", " ", "m", "y", " ", "a", "d", "h", "e", "r", "e", "n",
    "c", "e", "?">>

ChipReports2 ==
  <<"W", "h", "y", " ", "i", "s", " ", "m", "e", "d", "i", "c", "a", "t",
    "i", "o", "n", " ", "a", "d", "h", "e", "r", "e", "n", "c", "e", " ",
    "i", "m", "p", "o", "r", "t", "a", "n", "t", "?">>

\* content of the assistant turn appended for an {error} result
ErrorResultMessage ==
  <<"S", "o", "r", "r", "y", ",", " ", "I", " ", "e", "n", "c", "o", "u",
    "n", "t", "e", "r", "e", "d", " ", "a", "n", " ", "e", "r", "r", "o",
    "r", ".", " ", "P", "l", "e", "a", "s", "e", " ", "t", "r", "y", " ",
    "a", "g", "a", "i", "n", ".">>

\* content of the assistant turn appended by the catch clause
CaughtMessage ==
  <<"S", "o", "r", "r", "y", ",", " ", "s", "o", "m", "e", "t", "h", "i",
    "n", "g", " ", "w", "e", "n", "t", " ", "w", "r", "o", "n", "g", ".",
    " ", "P", "l", "e", "a", "s", "e", " ", "t", "r", "y", " ", "a", "g",
    "a", "i", "n", ".">>

KeyResponse ==
  <<"r", "e", "s", "p", "o", "n", "s", "e">>

KeyAnswer ==
  <<"a", "n", "s", "w", "e", "r">>

KeySuggestions ==
  <<"s", "u", "g", "g", "e", "s", "t", "i", "o", "n", "s">>

(***************************************************************************)
(* String.prototype.trim and the truthiness of a string.                   *)
(***************************************************************************)
WhiteSpace ==
  {" ", "\t", "\n", "\r", "\f"}

RECURSIVE TrimStart(_)
TrimStart(s) ==
  IF s # <<>> /\ Head(s) \in WhiteSpace THEN TrimStart(Tail(s)) ELSE s

RECURSIVE TrimEnd(_)
TrimEnd(s) ==
  IF s # <<>> /\ s[Len(s)] \in WhiteSpace
  THEN TrimEnd(SubSeq(s, 1, Len(s) - 1))
  ELSE s

Trim(s) ==
  TrimEnd(TrimStart(s))

\* a string is falsy exactly when it is empty
Truthy(s) ==
  s # <<>>

(***************************************************************************)
(* JSON values, as JSON.parse builds them.  An object keeps its members    *)
(* in the order of the text; a property read returns the last member with  *)
(* that key, or undefined.                                                 *)
(***************************************************************************)
JUndefined ==
  [t |-> "undefined"]

JNull ==
  [t |-> "null"]

JBool(b) ==
  [t |-> "bool", b |-> b]

JNum(n) ==
  [t |-> "num", n |-> n]

JStr(s) ==
  [t |-> "str", s |-> s]

JArr(a) ==
  [t |-> "arr", a |-> a]

JObj(m) ==
  [t |-> "obj", m |-> m]

Member(k, v) ==
  [k |-> k, v |-> v]

DigitChars ==
  <<"0", "1", "2", "3", "4", "5", "6", "7", "8", "9">>

IsDigit(c) ==
  \E d \in 1..10 : DigitChars[d] = c

DigitValue(c) ==
  (CHOOSE d \in 1..10 : DigitChars[d] = c) - 1

RECURSIVE DigitsValue(_)
DigitsValue(ds) ==
  IF ds = <<>> THEN 0
  ELSE DigitsValue(SubSeq(ds, 1, Len(ds) - 1)) * 10 + DigitValue(ds[Len(ds)])

JsonWS ==
  {" ", "\t", "\n", "\r"}

RECURSIVE SkipWS(_, _)
SkipWS(s, i) ==
  IF i <= Len(s) /\ s[i] \in JsonWS THEN SkipWS(s, i + 1) ELSE i

HasLiteralAt(s, i, lit) ==
  /\ i + Len(lit) - 1 <= Len(s)
  /\ SubSeq(s, i, i + Len(lit) - 1) = lit

ParseFail ==
  [ok |-> FALSE]

ParseOk(v, next) ==
  [ok |-> TRUE, v |-> v, next |-> next]

\* index of the closing quote of the string whose first character is at j,
\* 0 when the string is unterminated or holds a character JSON forbids
\* unescaped (escape sequences are outside the alphabet of the model)
RECURSIVE StringEnd(_, _)
StringEnd(s, j) ==
  IF j > Len(s) THEN 0
  ELSE IF s[j] = "\"" THEN j
  ELSE IF s[j] \in {"\\", "\n", "\t", "\r", "\f"} THEN 0
  ELSE StringEnd(s, j + 1)

ParseString(s, i) ==
  LET e == StringEnd(s, i + 1)
  IN  IF e = 0 THEN ParseFail ELSE ParseOk(JStr(SubSeq(s, i + 1, e - 1)), e + 1)

RECURSIVE DigitsEnd(_, _)
DigitsEnd(s, j) ==
  IF j <= Len(s) /\ IsDigit(s[j]) THEN DigitsEnd(s, j + 1) ELSE j

\* integers only: a fraction or an exponent is outside the alphabet
ParseNumber(s, i) ==
  LET neg   == s[i] = "-"
      first == IF neg THEN i + 1 ELSE i
      e     == DigitsEnd(s, first)
      ds    == SubSeq(s, first, e - 1)
  IN  IF ds = <<>> \/ (Len(ds) > 1 /\ ds[1] = "0") THEN ParseFail
      ELSE ParseOk(JNum(IF neg THEN 0 - DigitsValue(ds) ELSE DigitsValue(ds)), e)

RECURSIVE ParseValue(_, _)
RECURSIVE ParseElements(_, _, _)
RECURSIVE ParseMembers(_, _, _)

\* the value that starts at i (no leading whitespace)
ParseValue(s, i) ==
  IF i > Len(s) THEN ParseFail
  ELSE IF HasLiteralAt(s, i, <<"n", "u", "l", "l">>) THEN ParseOk(JNull, i + 4)
  ELSE IF HasLiteralAt(s, i, <<"t", "r", "u", "e">>) THEN ParseOk(JBool(TRUE), i + 4)
  ELSE IF HasLiteralAt(s, i, <<"f", "a", "l", "s", "e">>)
       THEN ParseOk(JBool(FALSE), i + 5)
  ELSE IF s[i] = "\"" THEN ParseString(s, i)
  ELSE IF s[i] = "-" \/ IsDigit(s[i]) THEN ParseNumber(s, i)
  ELSE IF s[i] = "["
       THEN LET j == SkipWS(s, i + 1)
            IN  IF j <= Len(s) /\ s[j] = "]" THEN ParseOk(JArr(<<>>), j + 1)
                ELSE ParseElements(s, j, <<>>)
  ELSE IF s[i] = "{"
       THEN LET j == SkipWS(s, i + 1)
            IN  IF j <= Len(s) /\ s[j] = "}" THEN ParseOk(JObj(<<>>), j + 1)
                ELSE ParseMembers(s, j, <<>>)
  ELSE ParseFail

\* the elements of an array from i on, acc holding those already read
ParseElements(s, i, acc) ==
  LET r == ParseValue(s, i)
  IN  IF ~r.ok THEN ParseFail
      ELSE LET j == SkipWS(s, r.next)
           IN  IF j > Len(s) THEN ParseFail
               ELSE IF s[j] = "]" THEN ParseOk(JArr(Append(acc, r.v)), j + 1)
               ELSE IF s[j] = ","
                    THEN ParseElements(s, SkipWS(s, j + 1), Append(acc, r.v))
               ELSE ParseFail

\* the members of an object from i on, acc holding those already read
ParseMembers(s, i, acc) ==
  IF i > Len(s) \/ s[i] # "\"" THEN ParseFail
  ELSE LET k == ParseString(s, i)
       IN  IF ~k.ok THEN ParseFail
           ELSE LET c == SkipWS(s, k.next)
                IN  IF c > Len(s) \/ s[c] # ":" THEN ParseFail
                    ELSE LET r == ParseValue(s, SkipWS(s, c + 1))
                         IN  IF ~r.ok THEN ParseFail
                             ELSE LET j  == SkipWS(s, r.next)
                                      m  == Append(acc, Member(k.v.s, r.v))
                                  IN  IF j > Len(s) THEN ParseFail
                                      ELSE IF s[j] = "}" THEN ParseOk(JObj(m), j + 1)
                                      ELSE IF s[j] = ","
                                           THEN ParseMembers(s, SkipWS(s, j + 1), m)
                                      ELSE ParseFail

\* JSON.parse: [ok |-> TRUE, v |-> value], or [ok |-> FALSE] when it throws
JSONparse(s) ==
  LET r == ParseValue(s, SkipWS(s, 1))
  IN  IF r.ok /\ SkipWS(s, r.next) = Len(s) + 1
      THEN [ok |-> TRUE, v |-> r.v]
      ELSE [ok |-> FALSE]

\* v[key] for a value that is neither null nor undefined
RECURSIVE LastMember(_, _)
LastMember(m, key) ==
  IF m = <<>> THEN JUndefined
  ELSE IF m[Len(m)].k = key THEN m[Len(m)].v
  ELSE LastMember(SubSeq(m, 1, Len(m) - 1), key)

Get(v, key) ==
  IF v.t = "obj" THEN LastMember(v.m, key) ELSE JUndefined

(***************************************************************************)
(* GlobalAssistantOutputSchema: {response: string, suggestions?: string[]} *)
(* safeParse succeeds on a plain object whose `response` is a string and   *)
(* whose `suggestions` is absent or an array of strings; its data keeps    *)
(* the two fields of the shape and strips every other key.                 *)
(*                                                                         *)
(* A GlobalAssistantOutput is [response |-> v] or [response |-> v,         *)
(* suggestions |-> <<v1, ...>>] where v, v1, ... are JavaScript values:    *)
(* that they are strings is what the code has to establish.                *)
(***************************************************************************)
IsStringArray(v) ==
  /\ v.t = "arr"
  /\ \A i \in 1..Len(v.a) : v.a[i].t = "str"

OutputSchemaSuccess(v) ==
  /\ v.t = "obj"
  /\ Get(v, KeyResponse).t = "str"
  /\ \/ Get(v, KeySuggestions).t = "undefined"
     \/ IsStringArray(Get(v, KeySuggestions))

OutputSchemaData(v) ==
  IF Get(v, KeySuggestions).t = "undefined"
  THEN [response |-> Get(v, KeyResponse)]
  ELSE [response |-> Get(v, KeyResponse), suggestions |-> Get(v, KeySuggestions).a]

\* mutant: the filter keeps every entry
FilterStringsKeepingAll(a) ==
  a

\* a.filter(s => typeof s === 'string')
RECURSIVE FilterStrings(_)
FilterStrings(a) ==
  IF a = <<>> THEN <<>>
  ELSE IF Head(a).t = "str" THEN <<Head(a)>> \o FilterStrings(Tail(a))
  ELSE FilterStrings(Tail(a))

\* mutant: the `answer` field is probed before the `response` field
SalvageAnswerFirst(rawParsed, content) ==
  LET resp == IF Get(rawParsed, KeyAnswer).t = "str"
              THEN Get(rawParsed, KeyAnswer)
              ELSE IF Get(rawParsed, KeyResponse).t = "str"
                   THEN Get(rawParsed, KeyResponse)
                   ELSE JStr(content)
      sug  == Get(rawParsed, KeySuggestions)
  IN  IF sug.t = "arr"
      THEN [response |-> resp, suggestions |-> FilterStrings(sug.a)]
      ELSE [response |-> resp]

\* the object literal built when the parsed value fails the schema; a
\* `suggestions: undefined` property is the absence of the field
Salvage(rawParsed, content) ==
  LET resp == IF Get(rawParsed, KeyResponse).t = "str"
              THEN Get(rawParsed, KeyResponse)
              ELSE IF Get(rawParsed, KeyAnswer).t = "str"
                   THEN Get(rawParsed, KeyAnswer)
                   ELSE JStr(content)
      sug  == Get(rawParsed, KeySuggestions)
  IN  IF sug.t = "arr"
      THEN [response |-> resp, suggestions |-> FilterStrings(sug.a)]
      ELSE [response |-> resp]

\* mutant: no catch clause, the SyntaxError of JSON.parse escapes
ValidateContentNoCatch(content) ==
  LET p == JSONparse(content)
  IN  IF ~p.ok THEN [threw |-> "SyntaxError"]
      ELSE IF OutputSchemaSuccess(p.v) THEN OutputSchemaData(p.v)
      ELSE IF p.v.t = "null" THEN [threw |-> "TypeError"]
      ELSE Salvage(p.v, content)

\* the try/catch that turns the provider's text into a GlobalAssistantOutput.
\* Reading a property of null throws a TypeError inside the try block, which
\* the catch clause turns into {response: content}.
ValidateContent(content) ==
  LET p == JSONparse(content)
  IN  IF ~p.ok THEN [response |-> JStr(content)]
      ELSE IF OutputSchemaSuccess(p.v) THEN OutputSchemaData(p.v)
      ELSE IF p.v.t = "null" THEN [response |-> JStr(content)]
      ELSE Salvage(p.v, content)

(***************************************************************************)
(* Number arithmetic of `Math.round((totalTaken / totalScheduled) * 100)`. *)
(* A JavaScript number is an IEEE-754 double: a positive one is written    *)
(* [bits, exp] for the value of the binary numeral `bits` (most            *)
(* significant bit first, a leading 1) times 2^exp.  Every operation gives *)
(* the exact result rounded to Precision significant bits, ties to even.   *)
(***************************************************************************)
Precision ==
  53

\* bits handled in one step of a division or a multiplication
ChunkBits ==
  8

\* chunks of a quotient: more than Precision + 1 bits
QuotientChunks ==
  7

RECURSIVE Power2(_)
Power2(n) ==
  IF n <= 0 THEN 1 ELSE 2 * Power2(n - 1)

Zero ==
  [bits |-> <<>>, exp |-> 0]

Front(a) ==
  SubSeq(a, 1, Len(a) - 1)

\* the natural number of a short binary numeral
RECURSIVE IntOf(_)
IntOf(a) ==
  IF a = <<>> THEN 0 ELSE 2 * IntOf(Front(a)) + a[Len(a)]

\* numeral + 1
RECURSIVE Increment(_)
Increment(a) ==
  IF a = <<>> THEN <<1>>
  ELSE IF a[Len(a)] = 0 THEN Front(a) \o <<1>>
  ELSE Increment(Front(a)) \o <<0>>

\* the nearest double of an exact value, ties to even
RoundDouble(x) ==
  IF Len(x.bits) <= Precision THEN x
  ELSE LET kept    == SubSeq(x.bits, 1, Precision)
           rest    == SubSeq(x.bits, Precision + 1, Len(x.bits))
           dropped == Len(rest)
           sticky  == \E i \in 2..dropped : rest[i] = 1
           up      == rest[1] = 1 /\ (sticky \/ kept[Precision] = 1)
           m       == IF up THEN Increment(kept) ELSE kept
       IN  IF Len(m) > Precision
           THEN [bits |-> Front(m), exp |-> x.exp + dropped + 1]
           ELSE [bits |-> m, exp |-> x.exp + dropped]

\* the numeral of n < 2^ChunkBits on ChunkBits bits
Chunk(n) ==
  [i \in 1..ChunkBits |-> (n \div Power2(ChunkBits - i)) % 2]

\* acc followed by the first n chunks of the binary expansion of r / s
\* (r < s), and the remainder that is left
RECURSIVE TakeChunks(_, _, _, _)
TakeChunks(r, s, n, acc) ==
  IF n = 0 THEN [bits |-> acc, rem |-> r]
  ELSE TakeChunks((r * Power2(ChunkBits)) % s, s, n - 1,
                  acc \o Chunk((r * Power2(ChunkBits)) \div s))

\* the zero bits before the first 1 of the expansion of r / s (r <= s),
\* 0 when there is no 1
RECURSIVE LeadingZeros(_, _)
LeadingZeros(r, s) ==
  IF r >= s \/ r = 0 THEN 0 ELSE 1 + LeadingZeros(2 * r, s)

\* t / s for naturals 0 <= t <= s, s > 0: the leading 1 of the quotient, the
\* bits of QuotientChunks chunks after it and one more bit that tells
\* whether anything is left, rounded
DoubleDivide(t, s) ==
  IF t = 0 THEN Zero
  ELSE LET z == LeadingZeros(t, s)
           q == TakeChunks(t * Power2(z) - s, s, QuotientChunks, <<1>>)
       IN  RoundDouble([bits |-> q.bits \o <<IF q.rem = 0 THEN 0 ELSE 1>>,
                        exp  |-> 0 - (z + QuotientChunks * ChunkBits + 1)])

\* a numeral without its leading zeros
RECURSIVE StripZeros(_)
StripZeros(a) ==
  IF a = <<>> \/ a[1] = 1 THEN a ELSE StripZeros(Tail(a))

\* numeral * n + c for a small natural n, a chunk at a time from the right
\* (the length of the numeral is a multiple of ChunkBits)
RECURSIVE MulChunks(_, _, _)
MulChunks(a, n, c) ==
  IF a = <<>> THEN Chunk(c)
  ELSE MulChunks(SubSeq(a, 1, Len(a) - ChunkBits), n,
                 (IntOf(SubSeq(a, Len(a) - ChunkBits + 1, Len(a))) * n + c)
                    \div Power2(ChunkBits))
         \o Chunk((IntOf(SubSeq(a, Len(a) - ChunkBits + 1, Len(a))) * n + c)
                    % Power2(ChunkBits))

\* numeral * n for a natural n < 2^ChunkBits
MulSmall(a, n) ==
  StripZeros(MulChunks([i \in 1..(ChunkBits - (Len(a) % ChunkBits)) |-> 0] \o a, n, 0))

\* x * n for a small natural n
DoubleTimes(x, n) ==
  IF x = Zero THEN Zero
  ELSE RoundDouble([bits |-> MulSmall(x.bits, n), exp |-> x.exp])

\* Math.round(x) for a double 0 <= x < 2^31: the nearest integer, ties up
MathRound(x) ==
  IF x = Zero THEN 0
  ELSE IF x.exp >= 0 THEN IntOf(x.bits) * Power2(x.exp)
  ELSE LET whole == Len(x.bits) + x.exp
       IN  IF whole < 0 THEN 0
           ELSE IntOf(SubSeq(x.bits, 1, whole)) + x.bits[whole + 1]

\* the percentage t of s rounded as an exact quotient, halves up
ExactRound(t, s) ==
  (200 * t + s) \div (2 * s)

(***************************************************************************)
(* The request and the two server-side functions.                          *)
(*   input : [pageContext, userMessage]                                    *)
(*   env   : [apiKey |-> BOOLEAN, provider |-> outcome of the completion   *)
(*            call, transport |-> whether the action call reaches the      *)
(*            server and its answer comes back]                            *)
(* A call yields [kind |-> "throw", ...] or [kind |-> "return", value].    *)
(* calls counts the provider requests the call made.                       *)
(***************************************************************************)
PageContexts ==
  {"dashboard", "medications", "reports"}

Throw(msg, calls) ==
  [kind |-> "throw", error |-> msg, calls |-> calls]

Return(value, calls) ==
  [kind |-> "return", value |-> value, calls |-> calls]

\* a string holding a timestamp: new Date(s) is the tick `date`
JDate(n) ==
  [t |-> "str", date |-> n]

IsString(v) ==
  v.t = "str"

IsNumber(v) ==
  v.t = "num"

Taken ==
  <<"t", "a", "k", "e", "n">>

Missed ==
  <<"m", "i", "s", "s", "e", "d">>

Skipped ==
  <<"s", "k", "i", "p", "p", "e", "d">>

\* z.enum(['taken', 'missed', 'skipped'])
LogStatuses ==
  {Taken, Missed, Skipped}

\* medications: z.array(z.object({name, dosage, schedule: {frequency, times}}))
MedicationsSchema(v) ==
  /\ v.t = "arr"
  /\ \A i \in 1..Len(v.a) :
       /\ IsString(v.a[i].name)
       /\ IsString(v.a[i].dosage)
       /\ IsString(v.a[i].schedule.frequency)
       /\ v.a[i].schedule.times.t = "arr"
       /\ \A j \in 1..Len(v.a[i].schedule.times.a) :
            IsString(v.a[i].schedule.times.a[j])

\* todayLogs: z.array(z.object({medicationName, time, status})).optional()
TodayLogsSchema(v) ==
  \/ v = JUndefined
  \/ /\ v.t = "arr"
     /\ \A i \in 1..Len(v.a) :
          /\ IsString(v.a[i].medicationName)
          /\ IsString(v.a[i].time)
          /\ IsString(v.a[i].status)
          /\ v.a[i].status.s \in LogStatuses

\* adherenceStats: z.object({totalScheduled, totalTaken, adherenceRate}).optional()
AdherenceStatsSchema(v) ==
  \/ v = JUndefined
  \/ /\ v.t = "obj"
     /\ IsNumber(v.totalScheduled)
     /\ IsNumber(v.totalTaken)
     /\ IsNumber(v.adherenceRate)

\* GlobalAssistantInputSchema.safeParse(input).success
GlobalAssistantInputSchema(in) ==
  /\ in.pageContext \in PageContexts
  /\ MedicationsSchema(in.medications)
  /\ TodayLogsSchema(in.todayLogs)
  /\ AdherenceStatsSchema(in.adherenceStats)

\* GlobalAssistantActionInput.safeParse(input).success: userMessage min(1)
GlobalAssistantActionInput(in) ==
  /\ in.pageContext \in PageContexts
  /\ Len(in.userMessage) >= 1
  /\ MedicationsSchema(in.medications)
  /\ TodayLogsSchema(in.todayLogs)
  /\ AdherenceStatsSchema(in.adherenceStats)

\* mutant: a failed provider call is made a second time
askGlobalAssistantRetrying(in, env) ==
  IF ~env.apiKey THEN Throw("OPENAI_API_KEY is not set.", 0)
  ELSE IF ~GlobalAssistantInputSchema(in)
       THEN Throw("Invalid input for global assistant.", 0)
  ELSE IF env.provider.kind = "throws" THEN Throw("provider", 2)
  ELSE IF env.provider.kind = "nomessage" \/ ~Truthy(env.provider.content)
       THEN Throw("No response from OpenAI.", 1)
  ELSE Return(ValidateContent(env.provider.content), 1)

askGlobalAssistant(in, env) ==
  IF ~env.apiKey THEN Throw("OPENAI_API_KEY is not set.", 0)
  ELSE IF ~GlobalAssistantInputSchema(in)
       THEN Throw("Invalid input for global assistant.", 0)
  ELSE IF env.provider.kind = "throws" THEN Throw("provider", 1)
  ELSE IF env.provider.kind = "nomessage" \/ ~Truthy(env.provider.content)
       THEN Throw("No response from OpenAI.", 1)
  ELSE Return(ValidateContent(env.provider.content), 1)

\* what the catch clause returns for the error it caught; `logged` is the
\* argument of its console.error
Failed(r) ==
  [kind   |-> "return",
   value  |-> [error |-> "Failed to get response. Please try again."],
   calls  |-> r.calls,
   logged |-> r.error]

\* mutant: the action hands its input to the flow without validating it
getGlobalAssistantResponseUnvalidated(in, env) ==
  LET r == askGlobalAssistant(in, env)
  IN  IF r.kind = "throw" THEN Failed(r) ELSE r

getGlobalAssistantResponse(in, env) ==
  IF ~GlobalAssistantActionInput(in) THEN Throw("Invalid input.", 0)
  ELSE LET r == askGlobalAssistant(in, env)
       IN  IF r.kind = "throw" THEN Failed(r) ELSE r

(***************************************************************************)
(* The conversation controller: state of GlobalAIAssistant.                *)
(*                                                                         *)
(* The component stays mounted across navigation (its effect on [pathname] *)
(* is what resets the conversation), and isPending is the pending flag of  *)
(* useTransition with an async action: true from startTransition until the *)
(* promise of the action settles.  React flushes the updates of a discrete *)
(* event and the effects of a commit before it runs the next handler, so   *)
(* every handler is one atomic step on the committed state.                *)
(***************************************************************************)
VARIABLES
  pathname,    \* usePathname()
  messages,    \* useState<Message[]>([])
  input,       \* useState('')
  isPending,   \* useTransition()
  inflight,    \* async actions started and not settled, oldest first
  replies,     \* history: replies[id] = assistant turns appended for request id
  last,        \* history: the last step taken
  medications, \* useMedication().medications
  logs,        \* useMedication().logs
  medsLoading, \* useMedication().loading
  now,         \* the clock: new Date(), in ticks
  content,     \* validator runs: the provider text under validation
  result,      \* validator runs: the output for content, NoResult before
  request,     \* server action runs: the input and the environment of the call
  answer,      \* server action runs: what the call yields, NoResult before
  stats        \* adherence runs: the stats computed, NoResult before

vars ==
  <<pathname, messages, input, isPending, inflight, replies, last,
    medications, logs, medsLoading, now, content, result, request, answer,
    stats>>

controllerVars ==
  <<pathname, messages, input, isPending, inflight, replies, last>>

storeVars ==
  <<medications, logs, medsLoading, now>>

validatorVars ==
  <<content, result>>

serverVars ==
  <<request, answer>>

\* the variables of the runs of single functions
harnessVars ==
  <<validatorVars, serverVars, stats>>

NoResult ==
  [pending |-> TRUE]

Paths ==
  {"/dashboard", "/medications", "/reports", "/"}

pageContextMap ==
  [p \in {"/dashboard", "/medications", "/reports"} |->
     CASE p = "/dashboard"   -> "dashboard"
       [] p = "/medications" -> "medications"
       [] p = "/reports"     -> "reports"]

\* pageContextMap[pathname] || 'dashboard'
pageContext ==
  IF pathname \in DOMAIN pageContextMap THEN pageContextMap[pathname]
  ELSE "dashboard"

\* the chips of the empty transcript
DefaultChips(ctx) ==
  CASE ctx = "dashboard"   -> {ChipDashboard1, ChipDashboard2}
    [] ctx = "medications" -> {ChipMedications1, ChipMedications2}
    [] ctx = "reports"     -> {ChipReports1, ChipReports2}

HasSuggestions(m) ==
  "suggestions" \in DOMAIN m

\* the texts of the SuggestionChips on screen
DisplayedSuggestions ==
  IF messages = <<>> THEN DefaultChips(pageContext)
  ELSE UNION {{messages[i].suggestions[j] : j \in 1..Len(messages[i].suggestions)} :
                i \in {k \in 1..Len(messages) : HasSuggestions(messages[k])}}

(***************************************************************************)
(* The data store (useMedication) and the figures the controller derives   *)
(* from it.  Time is counted in ticks, TicksPerDay to the day; a medication *)
(* and a log entry are records of tagged values, since nothing checks the  *)
(* entries of the store on the client.                                     *)
(***************************************************************************)
TicksPerDay ==
  2

\* thirtyDaysAgo.setDate(today.getDate() - 30)
WindowDays ==
  30

\* date.toDateString(): the day of a tick
DayOf(tick) ==
  tick \div TicksPerDay

\* a log entry of the store
Log(id, time, status) ==
  [id |-> id, medicationName |-> JStr(<<"A">>), time |-> JDate(time),
   status |-> JStr(status)]

\* mutant: the component renders while the store loads
RenderedWhileLoading ==
  TRUE

\* if (medsLoading) return null: the assistant is on screen
Rendered ==
  ~medsLoading

\* Math.round((totalTaken / totalScheduled) * 100) for every totalTaken of
\* every totalScheduled up to MaxLogs, computed once
AdherenceRates ==
  [s \in 1..MaxLogs |->
     [t \in 0..s |-> MathRound(DoubleTimes(DoubleDivide(t, s), 100))]]

\* Math.round((totalTaken / totalScheduled) * 100)
adherenceRate(totalTaken, totalScheduled) ==
  AdherenceRates[totalScheduled][totalTaken]

\* the stats of the log list ls at the tick `at`
calculateAdherenceStats(ls, at) ==
  LET thirtyDaysAgo   == at - WindowDays * TicksPerDay
      recent(log)     == log.time.date >= thirtyDaysAgo
      recentLogs      == SelectSeq(ls, recent)
      taken(log)      == log.status = JStr(Taken)
      totalTaken      == Len(SelectSeq(recentLogs, taken))
      totalScheduled  == IF Len(recentLogs) = 0 THEN 1 ELSE Len(recentLogs)
  IN  [t              |-> "obj",
       totalScheduled |-> JNum(totalScheduled),
       totalTaken     |-> JNum(totalTaken),
       adherenceRate  |-> JNum(adherenceRate(totalTaken, totalScheduled))]

\* the entries of ls of the day of the tick `at`, as the request carries them
getTodayLogs(ls, at) ==
  LET today(log) == DayOf(log.time.date) = DayOf(at)
      todayLogs  == SelectSeq(ls, today)
  IN  [i \in 1..Len(todayLogs) |->
         [medicationName |-> todayLogs[i].medicationName,
          time           |-> todayLogs[i].time,
          status         |-> todayLogs[i].status]]

\* medications.map(m => ({name, dosage, schedule: {frequency, times}}))
MapMedications(ms) ==
  [i \in 1..Len(ms) |->
     [name     |-> ms[i].name,
      dosage   |-> ms[i].dosage,
      schedule |-> [frequency |-> ms[i].schedule.frequency,
                    times     |-> ms[i].schedule.times]]]

(***************************************************************************)
(* Inputs of the environment.                                              *)
(***************************************************************************)
\* what the user types
Drafts ==
  {<<>>, <<" ">>, <<"h", "i">>, <<" ", "h", "i", " ">>}

\* {"response":"ok","suggestions":["hi"," "]}
TextWithSuggestions ==
  <<"{", "\"", "r", "e", "s", "p", "o", "n", "s", "e", "\"", ":", "\"", "o",
    "k", "\"", ",", "\"", "s", "u", "g", "g", "e", "s", "t", "i", "o", "n",
    "s", "\"", ":", "[", "\"", "h", "i", "\"", ",", "\"", " ", "\"", "]",
    "}">>

\* {"answer":"ok"}
TextWithAnswer ==
  <<"{", "\"", "a", "n", "s", "w", "e", "r", "\"", ":", "\"", "o", "k", "\"",
    "}">>

\* no
TextNotJson ==
  <<"n", "o">>

ProviderTexts ==
  {TextWithSuggestions, TextWithAnswer, TextNotJson}

ProviderOutcomes ==
  {[kind |-> "throws"], [kind |-> "nomessage"]}
    \cup {[kind |-> "message", content |-> c] : c \in ProviderTexts \cup {<<>>}}

Envs ==
  {[apiKey |-> k, provider |-> o, transport |-> t] :
     k \in BOOLEAN, o \in ProviderOutcomes, t \in BOOLEAN}

\* the clock of the runs of the controller: the second tick of day 31
Now0 ==
  (WindowDays + 1) * TicksPerDay + 1

\* a status the schema does not list
Late ==
  <<"l", "a", "t", "e">>

MedicationA ==
  [id       |-> 1,
   name     |-> JStr(<<"A">>),
   dosage   |-> JStr(<<"1">>),
   schedule |-> [frequency |-> JStr(<<"d">>), times |-> JArr(<<JStr(<<"8">>)>>)]]

\* what the store may hold: entries of the documented shape, or an entry of
\* today whose status is none of the three
StoreContents ==
  {[medications |-> <<MedicationA>>,
    logs        |-> <<Log(1, Now0 - TicksPerDay, Missed), Log(2, Now0, Taken)>>],
   [medications |-> <<MedicationA>>,
    logs        |-> <<Log(1, Now0, Late)>>]}

(***************************************************************************)
(* Provider texts for the runs of the validator: the JSON texts of a       *)
(* family of values (every combination of a `response`, an `answer` and a  *)
(* `suggestions` member over values of each type, and values that are not  *)
(* objects), and texts that are not JSON.                                  *)
(***************************************************************************)
RECURSIVE NumberText(_)
NumberText(n) ==
  IF n < 10 THEN <<DigitChars[n + 1]>>
  ELSE NumberText(n \div 10) \o <<DigitChars[(n % 10) + 1]>>

RECURSIVE JsonText(_)
RECURSIVE ElementsText(_)
RECURSIVE MembersText(_)

JsonText(v) ==
  CASE v.t = "null" -> <<"n", "u", "l", "l">>
    [] v.t = "bool" -> IF v.b THEN <<"t", "r", "u", "e">>
                       ELSE <<"f", "a", "l", "s", "e">>
    [] v.t = "num"  -> IF v.n < 0 THEN <<"-">> \o NumberText(0 - v.n)
                       ELSE NumberText(v.n)
    [] v.t = "str"  -> <<"\"">> \o v.s \o <<"\"">>
    [] v.t = "arr"  -> <<"[">> \o ElementsText(v.a) \o <<"]">>
    [] v.t = "obj"  -> <<"{">> \o MembersText(v.m) \o <<"}">>

ElementsText(a) ==
  IF a = <<>> THEN <<>>
  ELSE IF Len(a) = 1 THEN JsonText(a[1])
  ELSE JsonText(a[1]) \o <<",">> \o ElementsText(Tail(a))

MembersText(m) ==
  IF m = <<>> THEN <<>>
  ELSE LET one == <<"\"">> \o m[1].k \o <<"\"", ":">> \o JsonText(m[1].v)
       IN  IF Len(m) = 1 THEN one ELSE one \o <<",">> \o MembersText(Tail(m))

ResponseOptions ==
  {JUndefined, JStr(<<"o", "k">>), JStr(<<>>), JNum(5), JNull}

AnswerOptions ==
  {JUndefined, JStr(<<"a">>), JBool(TRUE)}

SuggestionsOptions ==
  {JUndefined, JArr(<<>>), JArr(<<JStr(<<"x">>)>>),
   JArr(<<JStr(<<"x">>), JNum(5), JStr(<<"y">>)>>), JStr(<<"x">>), JNull}

\* the object with the members that are not undefined, in this order
ObjectOf(r, a, g) ==
  JObj((IF r = JUndefined THEN <<>> ELSE <<Member(KeyResponse, r)>>)
       \o (IF a = JUndefined THEN <<>> ELSE <<Member(KeyAnswer, a)>>)
       \o (IF g = JUndefined THEN <<>> ELSE <<Member(KeySuggestions, g)>>))

ObjectValues ==
  {ObjectOf(r, a, g) :
     r \in ResponseOptions, a \in AnswerOptions, g \in SuggestionsOptions}

OtherValues ==
  {JNull, JBool(FALSE), JNum(0), JNum(12), JNum(-3), JStr(<<"o", "k">>),
   JArr(<<>>), JArr(<<JStr(<<"a">>)>>),
   JArr(<<JObj(<<Member(KeyResponse, JStr(<<"o", "k">>))>>)>>),
   \* a key outside the shape
   JObj(<<Member(KeyResponse, JStr(<<"o", "k">>)), Member(<<"x">>, JNum(1))>>),
   \* a key given twice: the last one counts
   JObj(<<Member(KeyResponse, JNum(1)), Member(KeyResponse, JStr(<<"o", "k">>))>>),
   JObj(<<Member(KeyResponse, JStr(<<"o", "k">>)), Member(KeyResponse, JNum(1)),
          Member(KeyAnswer, JStr(<<"a">>))>>),
   \* a nested response
   JObj(<<Member(KeyResponse, JObj(<<Member(KeyAnswer, JStr(<<"a">>))>>))>>)}

JsonTexts ==
  {JsonText(v) : v \in ObjectValues \cup OtherValues}
    \cup {<<" ", "\n">> \o JsonText(v) \o <<"\t", " ">> : v \in OtherValues}

NotJsonTexts ==
  {<<"n", "o">>,
   <<" ">>,
   <<"n", "u", "l", "l", "s">>,
   <<"0", "1">>,
   <<"-">>,
   <<"[", "1", ",", "]">>,
   <<"\"", "o", "k">>,
   <<"{", "\"", "r", "e", "s", "p", "o", "n", "s", "e", "\"", ":">>,
   <<"{", "r", "e", "s", "p", "o", "n", "s", "e", ":", "\"", "o", "k", "\"", "}">>,
   <<"{", "\"", "a", "n", "s", "w", "e", "r", "\"", ":", "\"", "a", "\"", "}", "}">>,
   <<"{", "\"", "a", "n", "s", "w", "e", "r", "\"", " ", "\"", "a", "\"", "}">>,
   <<"{", "\"", "a", "n", "s", "w", "e", "r", "\"", ":", "\"", "a", "\n", "\"", "}">>}

RawTexts ==
  JsonTexts \cup NotJsonTexts

\* the optional argument of handleSend
NoArgument ==
  [given |-> FALSE]

Argument(s) ==
  [given |-> TRUE, s |-> s]

(***************************************************************************)
(* handleSend                                                              *)
(***************************************************************************)
\* const text = messageText || input.trim()
SendText(messageText, draft) ==
  IF messageText.given /\ Truthy(messageText.s) THEN messageText.s
  ELSE Trim(draft)

\* mutant: the re-entrancy test is missing from the guard
SendRejectedIgnoringPending(text, pending) ==
  ~Truthy(text)

\* if (!text || isPending) return
SendRejected(text, pending) ==
  ~Truthy(text) \/ pending

\* the argument of getGlobalAssistantResponse
RequestInput(text) ==
  [pageContext    |-> pageContext,
   userMessage    |-> text,
   medications    |-> JArr(MapMedications(medications)),
   todayLogs      |-> JArr(getTodayLogs(logs, now)),
   adherenceStats |-> calculateAdherenceStats(logs, now)]

\* the user turn handleSend appends
UserTurn(text) ==
  [role |-> "user", content |-> text]

\* mutant: the user turn replaces the transcript
SendOutcomeReplacing(messageText, draft) ==
  LET text == SendText(messageText, draft)
  IN  IF SendRejected(text, isPending)
      THEN [accepted |-> FALSE, messages |-> messages, dispatched |-> <<>>]
      ELSE [accepted   |-> TRUE,
            messages   |-> <<UserTurn(text)>>,
            dispatched |-> <<RequestInput(text)>>]

\* what a call changes: the transcript after it and the requests it dispatches
SendOutcome(messageText, draft) ==
  LET text == SendText(messageText, draft)
  IN  IF SendRejected(text, isPending)
      THEN [accepted |-> FALSE, messages |-> messages, dispatched |-> <<>>]
      ELSE [accepted   |-> TRUE,
            messages   |-> Append(messages, UserTurn(text)),
            dispatched |-> <<RequestInput(text)>>]

handleSend(messageText) ==
  LET text == SendText(messageText, input)
      o    == SendOutcome(messageText, input)
  IN  IF ~o.accepted
      THEN /\ UNCHANGED <<pathname, messages, input, isPending, inflight, replies>>
           /\ last' = [op |-> "rejected", text |-> text, pending |-> isPending]
      ELSE /\ Len(replies) < MaxSubmits
           /\ messages' = o.messages
           /\ input' = <<>>
           /\ isPending' = TRUE
           /\ inflight' = Append(inflight, [input |-> o.dispatched[1],
                                            id    |-> Len(replies) + 1,
                                            stale |-> FALSE])
           /\ replies' = Append(replies, 0)
           /\ last' = [op |-> "accepted", text |-> text, pending |-> isPending]
           /\ UNCHANGED pathname

\* Enter in the textarea (handleKeyDown) or the Send button
SendTyped ==
  /\ Rendered
  /\ handleSend(NoArgument)
  /\ UNCHANGED <<storeVars, harnessVars>>

\* a SuggestionChip on screen is clicked
handleSuggestionClick ==
  /\ Rendered
  /\ \E s \in DisplayedSuggestions : handleSend(Argument(s))
  /\ UNCHANGED <<storeVars, harnessVars>>

\* onChange of the textarea, which is disabled while isPending
SetInput ==
  /\ Rendered
  /\ ~isPending
  /\ \E s \in Drafts :
       /\ input' = s
       /\ last' = [op |-> "typed"]
  /\ UNCHANGED <<pathname, messages, isPending, inflight, replies>>
  /\ UNCHANGED <<storeVars, harnessVars>>

(***************************************************************************)
(* The async action of startTransition, from the await on.                 *)
(***************************************************************************)
\* what `await getGlobalAssistantResponse(...)` yields: the call rejects
\* when it does not reach the server or when the action throws
AwaitResponse(in, env) ==
  IF ~env.transport THEN Throw("fetch", 0)
  ELSE getGlobalAssistantResponse(in, env)

\* mutant: the catch clause appends nothing
AppendedTurnsSilentCatch(r) ==
  IF r.kind = "throw"
  THEN <<>>
  ELSE IF "error" \in DOMAIN r.value
  THEN <<[role |-> "assistant", content |-> ErrorResultMessage]>>
  ELSE IF "suggestions" \in DOMAIN r.value
  THEN <<[role |-> "assistant", content |-> r.value.response.s,
          suggestions |-> [j \in 1..Len(r.value.suggestions) |->
                             r.value.suggestions[j].s]]>>
  ELSE <<[role |-> "assistant", content |-> r.value.response.s]>>

\* mutant: an error result gets the message of the catch clause
AppendedTurnsOneMessage(r) ==
  IF r.kind = "throw"
  THEN <<[role |-> "assistant", content |-> CaughtMessage]>>
  ELSE IF "error" \in DOMAIN r.value
  THEN <<[role |-> "assistant", content |-> CaughtMessage]>>
  ELSE IF "suggestions" \in DOMAIN r.value
  THEN <<[role |-> "assistant", content |-> r.value.response.s,
          suggestions |-> [j \in 1..Len(r.value.suggestions) |->
                             r.value.suggestions[j].s]]>>
  ELSE <<[role |-> "assistant", content |-> r.value.response.s]>>

\* mutant: the suggestions of the result are dropped
AppendedTurnsWithoutSuggestions(r) ==
  IF r.kind = "throw"
  THEN <<[role |-> "assistant", content |-> CaughtMessage]>>
  ELSE IF "error" \in DOMAIN r.value
  THEN <<[role |-> "assistant", content |-> ErrorResultMessage]>>
  ELSE <<[role |-> "assistant", content |-> r.value.response.s]>>

\* the turns the action appends once the await has yielded r
\* (result.response and result.suggestions are strings by their type)
AppendedTurns(r) ==
  IF r.kind = "throw"
  THEN <<[role |-> "assistant", content |-> CaughtMessage]>>
  ELSE IF "error" \in DOMAIN r.value
  THEN <<[role |-> "assistant", content |-> ErrorResultMessage]>>
  ELSE IF "suggestions" \in DOMAIN r.value
  THEN <<[role |-> "assistant", content |-> r.value.response.s,
          suggestions |-> [j \in 1..Len(r.value.suggestions) |->
                             r.value.suggestions[j].s]]>>
  ELSE <<[role |-> "assistant", content |-> r.value.response.s]>>

\* the number of assistant-role turns in a sequence of turns
AssistantTurns(turns) ==
  Cardinality({k \in 1..Len(turns) : turns[k].role = "assistant"})

\* mutant: the flag is not released when the action settles
PendingNeverReleased(rest) ==
  TRUE

\* isPending once an action has settled and `rest` are still running
PendingAfterSettle(rest) ==
  rest # <<>>

\* the error behind the outcome of a call: the one it threw or the one its
\* catch clause logged, "none" for an output
Cause(r) ==
  IF r.kind = "throw" THEN r.error
  ELSE IF "logged" \in DOMAIN r THEN r.logged
  ELSE "none"

\* the suggestions an outcome carries, as the texts they are
Suggested(r) ==
  IF r.kind = "return" /\ "suggestions" \in DOMAIN r.value
  THEN [some |-> TRUE,
        list |-> [j \in 1..Len(r.value.suggestions) |-> r.value.suggestions[j].s]]
  ELSE [some |-> FALSE]

RemoveAt(q, i) ==
  SubSeq(q, 1, i - 1) \o SubSeq(q, i + 1, Len(q))

Settle ==
  /\ \E i \in DOMAIN inflight, env \in Envs :
       LET req == inflight[i]
           r   == AwaitResponse(req.input, env)
       IN  /\ messages' = messages \o AppendedTurns(r)
           /\ inflight' = RemoveAt(inflight, i)
           /\ isPending' = PendingAfterSettle(RemoveAt(inflight, i))
           /\ replies' = [replies EXCEPT ![req.id] = @ + AssistantTurns(AppendedTurns(r))]
           /\ last' = [op |-> "settled", stale |-> req.stale, how |-> r.kind,
                       error |-> (r.kind = "return" /\ "error" \in DOMAIN r.value),
                       calls |-> r.calls, cause |-> Cause(r), id |-> req.id,
                       text |-> req.input.userMessage,
                       suggested |-> Suggested(r)]
  /\ UNCHANGED <<pathname, input>>
  /\ UNCHANGED <<storeVars, harnessVars>>

(***************************************************************************)
(* Navigation: pathname changes and the effect on [pathname] runs.         *)
(***************************************************************************)
\* mutant: the reset also drops the pending flag
NavigateClearingPending ==
  /\ \E p \in Paths \ {pathname} :
       pathname' = p
  /\ messages' = <<>>
  /\ input' = <<>>
  /\ isPending' = FALSE
  /\ inflight' = [i \in DOMAIN inflight |-> [inflight[i] EXCEPT !.stale = TRUE]]
  /\ last' = [op |-> "navigated", turns |-> Len(messages), draft |-> Len(input)]
  /\ UNCHANGED replies
  /\ UNCHANGED <<storeVars, harnessVars>>

\* mutant: the effect clears the draft only
NavigateKeepingTranscript ==
  /\ \E p \in Paths \ {pathname} :
       pathname' = p
  /\ input' = <<>>
  /\ inflight' = [i \in DOMAIN inflight |-> [inflight[i] EXCEPT !.stale = TRUE]]
  /\ last' = [op |-> "navigated", turns |-> Len(messages), draft |-> Len(input)]
  /\ UNCHANGED <<messages, isPending, replies>>
  /\ UNCHANGED <<storeVars, harnessVars>>

Navigate ==
  /\ \E p \in Paths \ {pathname} :
       pathname' = p
  /\ messages' = <<>>
  /\ input' = <<>>
  /\ inflight' = [i \in DOMAIN inflight |-> [inflight[i] EXCEPT !.stale = TRUE]]
  /\ last' = [op |-> "navigated", turns |-> Len(messages), draft |-> Len(input)]
  /\ UNCHANGED <<isPending, replies>>
  /\ UNCHANGED <<storeVars, harnessVars>>

(***************************************************************************)
(* The data store: it reports loading until its data are there, and again  *)
(* while it fetches them anew.                                             *)
(***************************************************************************)
Loaded ==
  /\ medsLoading
  /\ medsLoading' = FALSE
  /\ last' = [op |-> "loaded"]
  /\ UNCHANGED <<pathname, messages, input, isPending, inflight, replies>>
  /\ UNCHANGED <<medications, logs, now>>
  /\ UNCHANGED harnessVars

Reload ==
  /\ ~medsLoading
  /\ medsLoading' = TRUE
  /\ last' = [op |-> "reload"]
  /\ UNCHANGED <<pathname, messages, input, isPending, inflight, replies>>
  /\ UNCHANGED <<medications, logs, now>>
  /\ UNCHANGED harnessVars

ControllerInit ==
  /\ messages = <<>>
  /\ input = <<>>
  /\ isPending = FALSE
  /\ inflight = <<>>
  /\ replies = <<>>
  /\ last = [op |-> "mounted"]

\* the store of the runs of single functions
StoreIdle ==
  /\ medications = <<>>
  /\ logs = <<>>
  /\ medsLoading = FALSE
  /\ now = Now0

NoRequest ==
  [none |-> TRUE]

\* nothing under test
ValidatorIdle ==
  /\ content = <<>>
  /\ result = NoResult

ServerIdle ==
  /\ request = NoRequest
  /\ answer = NoResult

Init ==
  /\ pathname \in Paths
  /\ ControllerInit
  /\ \E c \in StoreContents :
       /\ medications = c.medications
       /\ logs = c.logs
  /\ medsLoading = TRUE
  /\ now = Now0
  /\ ValidatorIdle
  /\ ServerIdle
  /\ stats = NoResult

Next ==
  \/ SetInput
  \/ SendTyped
  \/ handleSuggestionClick
  \/ Settle
  \/ Navigate
  \/ Loaded
  \/ Reload

Spec ==
  Init /\ [][Next]_vars

\* a dispatched request settles: the call resolves or rejects
FairSpec ==
  Spec /\ WF_vars(Settle)

(***************************************************************************)
(* Runs of the validator alone: the tail of askGlobalAssistant, applied to *)
(* every provider text of RawTexts (each is non-empty, as the `!content`   *)
(* test before it requires).                                               *)
(***************************************************************************)
Validate ==
  /\ result = NoResult
  /\ Truthy(content)
  /\ result' = ValidateContent(content)
  /\ UNCHANGED content
  /\ UNCHANGED <<controllerVars, storeVars, serverVars, stats>>

Receive ==
  /\ result # NoResult
  /\ \E c \in RawTexts : content' = c
  /\ result' = NoResult
  /\ UNCHANGED <<controllerVars, storeVars, serverVars, stats>>

ValidatorInit ==
  /\ pathname = "/dashboard"
  /\ ControllerInit
  /\ StoreIdle
  /\ ServerIdle
  /\ stats = NoResult
  /\ content \in RawTexts
  /\ result = NoResult

ValidatorNext ==
  \/ Validate
  \/ Receive

ValidatorSpec ==
  ValidatorInit /\ [][ValidatorNext]_vars

(***************************************************************************)
(* Runs of the server action alone: getGlobalAssistantResponse applied to  *)
(* inputs of the documented shape and to inputs off it in one field or     *)
(* more, under every environment.                                          *)
(***************************************************************************)
StoreLogs ==
  <<Log(1, Now0 - TicksPerDay, Missed), Log(2, Now0, Taken)>>

WellFormedMedications ==
  {JArr(<<>>), JArr(MapMedications(<<MedicationA>>))}

\* not an array; an entry without a dosage
MalformedMedications ==
  {JNull,
   JArr(<<[name     |-> JStr(<<"A">>),
           dosage   |-> JUndefined,
           schedule |-> [frequency |-> JStr(<<"d">>), times |-> JArr(<<>>)]]>>)}

WellFormedTodayLogs ==
  {JUndefined, JArr(getTodayLogs(StoreLogs, Now0))}

\* null; an entry whose status is none of the three
MalformedTodayLogs ==
  {JNull, JArr(getTodayLogs(<<Log(1, Now0, Late)>>, Now0))}

WellFormedAdherenceStats ==
  {JUndefined, calculateAdherenceStats(StoreLogs, Now0)}

\* null; a rate that is no number
MalformedAdherenceStats ==
  {JNull, [calculateAdherenceStats(StoreLogs, Now0) EXCEPT !.adherenceRate = JNull]}

ActionInputs ==
  {[pageContext    |-> c,
    userMessage    |-> u,
    medications    |-> m,
    todayLogs      |-> l,
    adherenceStats |-> a] :
     c \in PageContexts \cup {"settings"},
     u \in {<<>>, <<" ">>, <<"h", "i">>},
     m \in WellFormedMedications \cup MalformedMedications,
     l \in WellFormedTodayLogs \cup MalformedTodayLogs,
     a \in WellFormedAdherenceStats \cup MalformedAdherenceStats}

Call ==
  /\ request # NoRequest
  /\ answer = NoResult
  /\ answer' = getGlobalAssistantResponse(request.in, request.env)
  /\ UNCHANGED request
  /\ UNCHANGED <<controllerVars, storeVars, validatorVars, stats>>

ActionInit ==
  /\ pathname = "/dashboard"
  /\ ControllerInit
  /\ StoreIdle
  /\ ValidatorIdle
  /\ stats = NoResult
  /\ request \in {[in |-> i, env |-> e] : i \in ActionInputs, e \in Envs}
  /\ answer = NoResult

ActionNext ==
  Call

ActionSpec ==
  ActionInit /\ [][ActionNext]_vars

(***************************************************************************)
(* Runs of calculateAdherenceStats alone, over log lists with up to        *)
(* MaxLogs entries in the window: `recent` entries from the tick of the    *)
(* clock back to the tick 30 days before it, the last `taken` of them      *)
(* taken, after `older` entries from before the window and before `later`  *)
(* entries of the next day.                                                *)
(***************************************************************************)
\* the ticks from a tick to the same tick WindowDays before
WindowTicks ==
  WindowDays * TicksPerDay

LogList(recent, taken, older, later) ==
  [i \in 1..older |-> Log(i, Now0 - WindowTicks - i, Taken)]
    \o [i \in 1..recent |->
          Log(older + i, Now0 - ((3 * i) % (WindowTicks + 1)),
              IF i > recent - taken THEN Taken
              ELSE IF i % 2 = 0 THEN Missed ELSE Skipped)]
    \o [i \in 1..later |-> Log(older + recent + i, Now0 + TicksPerDay + i, Taken)]

Calculate ==
  /\ stats = NoResult
  /\ stats' = calculateAdherenceStats(logs, now)
  /\ UNCHANGED <<medications, logs, medsLoading, now>>
  /\ UNCHANGED <<controllerVars, validatorVars, serverVars>>

StatsInit ==
  /\ pathname = "/dashboard"
  /\ ControllerInit
  /\ medications = <<>>
  /\ medsLoading = FALSE
  /\ ValidatorIdle
  /\ ServerIdle
  /\ \E n \in 0..MaxLogs, f \in {0, 1} :
       \E k \in 0..n, o \in {0, 1} :
         /\ n + f <= MaxLogs
         /\ logs = LogList(n, k, o, f)
  /\ now \in {Now0, Now0 + 1}
  /\ stats = NoResult

StatsNext ==
  Calculate

StatsSpec ==
  StatsInit /\ [][StatsNext]_vars

(***************************************************************************)
(* Properties of the conversation controller (Spec, FairSpec).             *)
(***************************************************************************)

\* C1 - single-flight: a submit (typed or by a suggestion chip) taken while
\* a request is in flight changes neither the transcript, nor the draft, nor
\* the in-flight flag, and dispatches nothing.
C1_SingleFlight ==
  [][(inflight # <<>> /\ (SendTyped \/ handleSuggestionClick))
       => UNCHANGED <<messages, input, isPending, inflight>>]_vars

\* a submit with a non-empty text was dropped while a request was in flight
C1_Witness ==
  /\ last.op = "rejected"
  /\ last.pending
  /\ Truthy(last.text)
  /\ Len(inflight) = 1
  /\ ~inflight[1].stale

\* C2 - at most one request is dispatched and not settled, in every
\* reachable state.
C2_AtMostOneInFlight ==
  Len(inflight) <= 1

\* a submit was tried under a new page while the request of the previous
\* page was still in flight
C2_Witness ==
  /\ Len(inflight) = 1
  /\ inflight[1].stale
  /\ last.op = "rejected"
  /\ Truthy(last.text)

\* C3 - terminal settlement: a request in flight has appended no assistant
\* turn, a settled one has appended exactly one, and every accepted submit
\* eventually has its one assistant turn.
C3_TerminalSettlement ==
  /\ [](\A i \in DOMAIN replies :
          replies[i] = IF \E k \in DOMAIN inflight : inflight[k].id = i
                       THEN 0 ELSE 1)
  /\ \A i \in 1..MaxSubmits :
       [](i \in DOMAIN replies => <>(i \in DOMAIN replies /\ replies[i] = 1))

\* a request settled by a thrown exception and has its one assistant turn
C3_Witness ==
  /\ last.op = "settled"
  /\ last.how = "throw"
  /\ replies # <<>>
  /\ \A i \in DOMAIN replies : replies[i] = 1
  /\ messages # <<>>
  /\ messages[Len(messages)].content = CaughtMessage

\* C4 - the in-flight flag is released on every exit path: once no request
\* is in flight the flag is false and a submit is accepted again.
C4_FlagReleased ==
  inflight = <<>>
    => /\ ~isPending
       /\ SendOutcome(Argument(ChipDashboard1), input).accepted

\* a request settled with an {error} result and the flag is released
C4_Witness ==
  /\ last.op = "settled"
  /\ last.error
  /\ inflight = <<>>
  /\ ~isPending

\* C5 - late-response discard: the settlement of a request dispatched
\* before a context change appends nothing to the transcript.
C5_LateResponseDiscarded ==
  [][(\E i \in DOMAIN inflight :
        inflight[i].stale /\ inflight' = RemoveAt(inflight, i))
       => messages' = messages]_vars

\* C6 - context isolation: right after a change of page the transcript and
\* the draft are empty.
C6_ContextIsolation ==
  [][pathname' # pathname => (messages' = <<>> /\ input' = <<>>)]_vars

\* the page changed while the transcript had turns and a draft was typed
C6_Witness ==
  /\ last.op = "navigated"
  /\ last.turns > 0
  /\ last.draft > 0
  /\ messages = <<>>
  /\ input = <<>>

\* C7 - empty-input rejection: a submit whose message is empty or only
\* whitespace, typed or passed by a suggestion chip, appends no user turn
\* and dispatches no request.
C7_BlankNeverSubmitted ==
  [][(\/ Trim(input) = <<>> /\ SendTyped
      \/ \E s \in DisplayedSuggestions :
           /\ Trim(s) = <<>>
           /\ handleSend(Argument(s))
           /\ UNCHANGED <<storeVars, harnessVars>>)
       => UNCHANGED <<messages, inflight>>]_vars

\* C8 - suggestion reuse: selecting a displayed suggestion s has the effect
\* on the transcript and on the dispatched request of submitting the draft s.
C8_SuggestionSameAsTyped ==
  \A s \in DisplayedSuggestions :
    LET clicked == SendOutcome(Argument(s), input)
        typed   == SendOutcome(NoArgument, s)
    IN  /\ clicked.messages = typed.messages
        /\ clicked.dispatched = typed.dispatched

(***************************************************************************)
(* Properties of the response validator (ValidatorSpec).                   *)
(***************************************************************************)

\* C9 - the validator never fails outward: for every non-empty provider text
\* it returns an output whose response is a string, and the output is
\* exactly {response: text} when the text is not JSON.
C9_ValidatorNeverFails ==
  result # NoResult
    => /\ "response" \in DOMAIN result
       /\ result.response.t = "str"
       /\ ~JSONparse(content).ok => result = [response |-> JStr(content)]

\* a text that is not JSON was validated
C9_Witness ==
  /\ result # NoResult
  /\ ~JSONparse(content).ok
  /\ result = [response |-> JStr(content)]

\* C10 - salvage probe order: a parsed value of the shape is returned with
\* its response and suggestions as they are; for one that fails the shape
\* the response is its `response` if that is a string, else its `answer` if
\* that is a string, else the text itself.
C10_SalvageOrder ==
  (result # NoResult /\ JSONparse(content).ok)
    => LET v == JSONparse(content).v
           r == Get(v, KeyResponse)
           a == Get(v, KeyAnswer)
           g == Get(v, KeySuggestions)
       IN  IF OutputSchemaSuccess(v)
           THEN /\ result.response = r
                /\ IF g.t = "undefined"
                   THEN DOMAIN result = {"response"}
                   ELSE /\ DOMAIN result = {"response", "suggestions"}
                        /\ result.suggestions = g.a
           ELSE result.response =
                  IF r.t = "str" THEN r ELSE IF a.t = "str" THEN a ELSE JStr(content)

\* an object without a string `response` was salvaged from its `answer`
C10_Witness ==
  /\ result # NoResult
  /\ JSONparse(content).ok
  /\ ~OutputSchemaSuccess(JSONparse(content).v)
  /\ Get(JSONparse(content).v, KeyResponse).t = "num"
  /\ Get(JSONparse(content).v, KeyAnswer).t = "str"
  /\ result.response = Get(JSONparse(content).v, KeyAnswer)

\* C11 - suggestion filtering on the salvage path: when the parsed value
\* fails the shape, the suggestions of the output are the string entries of
\* its `suggestions` array in their order if that field is an array, and are
\* omitted otherwise; every suggestion of every output is a string.
C11_SuggestionsFiltered ==
  result # NoResult
    => /\ "suggestions" \in DOMAIN result
            => \A k \in 1..Len(result.suggestions) : result.suggestions[k].t = "str"
       /\ (JSONparse(content).ok /\ ~OutputSchemaSuccess(JSONparse(content).v))
            => LET g    == Get(JSONparse(content).v, KeySuggestions)
                   idx  == {i \in 1..Len(g.a) : g.a[i].t = "str"}
                   \* the index in g.a of the k-th string entry
                   at(k) == CHOOSE i \in idx :
                              Cardinality({j \in idx : j < i}) = k - 1
               IN  IF g.t = "arr"
                   THEN /\ "suggestions" \in DOMAIN result
                        /\ Len(result.suggestions) = Cardinality(idx)
                        /\ \A k \in 1..Cardinality(idx) :
                             result.suggestions[k] = g.a[at(k)]
                   ELSE "suggestions" \notin DOMAIN result

\* an array with a non-string entry between two strings was filtered
C11_Witness ==
  /\ result # NoResult
  /\ JSONparse(content).ok
  /\ ~OutputSchemaSuccess(JSONparse(content).v)
  /\ Get(JSONparse(content).v, KeySuggestions).t = "arr"
  /\ Len(Get(JSONparse(content).v, KeySuggestions).a) = 3
  /\ "suggestions" \in DOMAIN result
  /\ result.suggestions = <<JStr(<<"x">>), JStr(<<"y">>)>>

\* C13 - invalid input never reaches the transcript: no request whose input
\* fails the validation of the action is in flight (none got its user turn)
\* and no action settles by the invalid-input error (none gets an assistant
\* turn).
C13_InvalidInputNotRecorded ==
  /\ \A i \in DOMAIN inflight : GlobalAssistantActionInput(inflight[i].input)
  /\ last.op = "settled" => last.cause # "Invalid input."

\* C14 - provider failure conversion: when the provider call throws or
\* sends no text, the awaited call returns (it does not reject), the one
\* assistant turn of the request is the generic error message without
\* suggestions, and the message of the catch clause is appended only when the
\* awaited call rejected.
C14_ProviderFailureConverted ==
  last.op = "settled"
    => /\ last.cause \in {"provider", "No response from OpenAI."}
            => /\ last.how = "return"
               /\ replies[last.id] = 1
               /\ messages[Len(messages)] =
                    [role |-> "assistant", content |-> ErrorResultMessage]
       /\ messages[Len(messages)].content = CaughtMessage => last.how = "throw"

\* the provider threw and the turn ended with the generic error message
C14_Witness ==
  /\ last.op = "settled"
  /\ last.cause = "provider"
  /\ ~last.stale
  /\ Len(messages) = 2
  /\ messages[2] = [role |-> "assistant", content |-> ErrorResultMessage]

\* C16 as stated - every request that settles has made exactly one provider
\* request.
C16_ExactlyOneProviderRequest ==
  last.op = "settled" => last.calls = 1

\* the errors that end a call before it reaches the provider
BeforeProvider ==
  {"fetch", "Invalid input.", "OPENAI_API_KEY is not set.",
   "Invalid input for global assistant."}

\* this step appends a user turn
UserTurnAppended ==
  /\ Len(messages') = Len(messages) + 1
  /\ messages'[Len(messages')].role = "user"

\* C16 amended - no retry: a step dispatches a request exactly when it
\* appends a user turn, and then one request, carrying the text of that
\* turn; a request that settles has made at most one provider request - one
\* unless the call failed before it reached the provider - and is never
\* dispatched again.
C16_NoRetry ==
  /\ [](last.op = "settled"
          => /\ last.calls = (IF last.cause \in BeforeProvider THEN 0 ELSE 1)
             /\ \A i \in DOMAIN inflight : inflight[i].id # last.id)
  /\ [][IF UserTurnAppended
        THEN /\ inflight' = Append(inflight, inflight'[Len(inflight')])
             /\ messages' = Append(messages,
                              UserTurn(inflight'[Len(inflight')].input.userMessage))
             /\ inflight'[Len(inflight')].id = Len(replies')
             /\ Len(replies') = Len(replies) + 1
        ELSE /\ Len(inflight') <= Len(inflight)
             /\ Len(replies') = Len(replies)]_vars

\* an accepted turn whose call stopped at the missing credential, no
\* provider request made, and nothing dispatched after it
C16_Witness ==
  /\ last.op = "settled"
  /\ last.cause = "OPENAI_API_KEY is not set."
  /\ last.calls = 0
  /\ Len(messages) = 2
  /\ inflight = <<>>

\* C18 - readiness gate: while the store reports loading, nothing is on
\* screen, so no step appends a user turn, dispatches a request or changes
\* the draft other than by the reset of a navigation.
C18_ReadinessGate ==
  [][medsLoading
       => /\ ~Rendered
          /\ ~UserTurnAppended
          /\ Len(inflight') <= Len(inflight)
          /\ input' \in {input, <<>>}]_vars

\* the store went back to loading over a conversation with a draft typed,
\* which a submit would send if the assistant were on screen
C18_Witness ==
  /\ medsLoading
  /\ Len(messages) = 2
  /\ input = <<"h", "i">>
  /\ SendOutcome(NoArgument, input).accepted

\* C19 - conversation independence: when the only requests in flight are
\* those of earlier contexts, a submit of a non-blank text is accepted.
C19_ConversationIndependence ==
  (inflight # <<>> /\ \A i \in DOMAIN inflight : inflight[i].stale)
    => SendOutcome(Argument(<<"h", "i">>), input).accepted

\* C20 - suggestions attach only to the assistant turn that produced them:
\* no user turn carries suggestions; the turn a request ends with carries
\* exactly the suggestions its call returned, none when the call failed; and
\* unless the conversation was reset meanwhile, that turn follows the user
\* turn of the request.
C20_SuggestionsAttached ==
  /\ \A k \in 1..Len(messages) :
       messages[k].role = "user" => ~HasSuggestions(messages[k])
  /\ last.op = "settled"
       => /\ messages[Len(messages)].role = "assistant"
          /\ HasSuggestions(messages[Len(messages)]) = last.suggested.some
          /\ last.suggested.some
               => messages[Len(messages)].suggestions = last.suggested.list
          /\ (last.how = "throw" \/ last.error) => ~last.suggested.some
          /\ ~last.stale
               => /\ Len(messages) >= 2
                  /\ messages[Len(messages) - 1] = UserTurn(last.text)

\* the answer to a chip carries the two suggestions the provider returned
C20_Witness ==
  /\ last.op = "settled"
  /\ ~last.stale
  /\ Len(messages) = 2
  /\ messages[1] = UserTurn(ChipReports1)
  /\ HasSuggestions(messages[2])
  /\ messages[2].suggestions = <<<<"h", "i">>, <<" ">>>>

\* C21 - append-only transcript: every step that is not a change of page
\* (an accepted or a rejected submit, a settlement, and any other) leaves
\* the transcript a prefix of the new one, which is longer by one turn at
\* most.
C21_AppendOnly ==
  [][pathname' = pathname
       => /\ Len(messages') \in {Len(messages), Len(messages) + 1}
          /\ SubSeq(messages', 1, Len(messages)) = messages]_vars

\* a second answer was appended to a transcript of three turns
C21_Witness ==
  /\ last.op = "settled"
  /\ ~last.stale
  /\ last.id = 2
  /\ Len(messages) = 4

\* C23 - turn alternation: the roles of the transcript alternate from a user
\* turn on, and the transcript ends with a user turn exactly when a request
\* of this conversation carrying the text of that turn is in flight.
C23_TurnAlternation ==
  /\ \A k \in 1..Len(messages) :
       messages[k].role = (IF k % 2 = 1 THEN "user" ELSE "assistant")
  /\ (messages # <<>> /\ messages[Len(messages)].role = "user")
       <=> \E i \in DOMAIN inflight :
             /\ ~inflight[i].stale
             /\ messages # <<>>
             /\ inflight[i].input.userMessage = messages[Len(messages)].content

(***************************************************************************)
(* Properties of the server action (ActionSpec).                           *)
(***************************************************************************)
\* an input off the documented shape: a page context outside the three, an
\* empty message, malformed medications, logs or stats
OffShape(in) ==
  \/ in.pageContext \notin {"dashboard", "medications", "reports"}
  \/ in.userMessage = <<>>
  \/ in.medications \in MalformedMedications
  \/ in.todayLogs \in MalformedTodayLogs
  \/ in.adherenceStats \in MalformedAdherenceStats

\* C12 - getGlobalAssistantResponse fails fast on an input off the
\* documented shape: it throws the invalid-input error, which no input of
\* the documented shape yields under any provider or runtime failure (those
\* return a result), and it makes no provider request.
C12_InvalidInputFailsFast ==
  answer # NoResult
    => IF OffShape(request.in)
       THEN /\ answer.kind = "throw"
            /\ answer.error = "Invalid input."
            /\ answer.calls = 0
       ELSE answer.kind = "return"

\* an empty message was refused although the provider would have answered
C12_Witness ==
  /\ answer # NoResult
  /\ request.in.userMessage = <<>>
  /\ request.in.pageContext = "reports"
  /\ request.in.medications \in WellFormedMedications
  /\ request.env.apiKey
  /\ request.env.provider = [kind |-> "message", content |-> TextWithAnswer]
  /\ answer.kind = "throw"

\* what the caller of the action gets: the error thrown or the value returned
Visible(r) ==
  IF r.kind = "throw" THEN [kind |-> "throw", error |-> r.error]
  ELSE [kind |-> "return", value |-> r.value]

\* a failure of one request at the provider: it throws or sends no text
ProviderFailure(env) ==
  /\ env.apiKey
  /\ \/ env.provider.kind \in {"throws", "nomessage"}
     \/ env.provider = [kind |-> "message", content |-> <<>>]

\* C15 - missing credential: without a credential no provider request is
\* made, and what the caller gets differs from what it gets for the same
\* input when a request fails at the provider.
C15_MissingCredentialDistinct ==
  (answer # NoResult /\ ~OffShape(request.in) /\ ~request.env.apiKey)
    => /\ answer.calls = 0
       /\ \A e \in Envs :
            ProviderFailure(e)
              => Visible(getGlobalAssistantResponse(request.in, e)) # Visible(answer)

(***************************************************************************)
(* Properties of the adherence stats (StatsSpec).                          *)
(***************************************************************************)
\* the entries of the log list that are not older than 30 days
InWindow ==
  {i \in DOMAIN logs : logs[i].time.date >= now - WindowTicks}

\* C17 - adherence computation: totalTaken is the number of in-window
\* entries with status taken, totalScheduled the number of in-window entries
\* or 1 if there is none, adherenceRate the quotient of the two as a
\* percentage rounded to the nearest integer; so totalTaken <= totalScheduled
\* and the rate is an integer from 0 to 100, 0 for an empty window and 75 for
\* 6 taken out of 8.
C17_AdherenceComputation ==
  stats # NoResult
    => LET taken     == Cardinality({i \in InWindow : logs[i].status.s = Taken})
           scheduled == IF InWindow = {} THEN 1 ELSE Cardinality(InWindow)
       IN  /\ stats.totalTaken = JNum(taken)
           /\ stats.totalScheduled = JNum(scheduled)
           /\ stats.adherenceRate = JNum(ExactRound(taken, scheduled))
           /\ taken <= scheduled
           /\ stats.adherenceRate.n \in 0..100
           /\ InWindow = {} => stats.adherenceRate.n = 0
           /\ (taken = 6 /\ scheduled = 8) => stats.adherenceRate.n = 75

\* the entries of the log list inside the trailing 30-day window that ends
\* today: not older than 30 days and not dated after today
InTrailingWindow ==
  {i \in InWindow : DayOf(logs[i].time.date) <= DayOf(now)}

\* C22 - adherence window: totalScheduled and totalTaken count the entries
\* of the trailing 30-day window ending today only; older entries and
\* entries dated after today are left out.
C22_AdherenceWindow ==
  stats # NoResult
    => /\ stats.totalScheduled.n =
            (IF InTrailingWindow = {} THEN 1 ELSE Cardinality(InTrailingWindow))
       /\ stats.totalTaken.n =
            Cardinality({i \in InTrailingWindow : logs[i].status.s = Taken})

====
